---- MODULE Spec2Model ----
(***************************************************************************)
(* Technical indicators of kunlin1013/stock_trade_engine:                  *)
(*   Technical_indicator/tech_ma.py      simple_moving_average             *)
(*   Technical_indicator/tech_bbands.py  bbands                            *)
(*                                                                         *)
(* Both are pure functions of a pandas Series.  A call is one action; the  *)
(* state holds the arguments of the call and the DataFrame (or the         *)
(* exception) it produced.                                                 *)
(*                                                                         *)
(* Cell values.  A float64 cell is NaN (pandas' missing marker), +inf/-inf *)
(* or a finite number.  Finite numbers are kept exactly, as                *)
(*        (n + m * sqrt(r)) / d        n, m, r, d integers, d > 0, r >= 0  *)
(* which is closed under everything bbands does to one row: the only       *)
(* irrational of a row is its rolling standard deviation.  Rounding of     *)
(* IEEE doubles is not modelled.  An int64 cell (astype(int)) and a        *)
(* non-numeric cell (object dtype) are kinds of their own.                 *)
(***************************************************************************)
EXTENDS Integers, Sequences, FiniteSets

VARIABLES close, index, period, times, result

vars == <<close, index, period, times, result>>

----------------------------------------------------------------------------
(* Bounds of the model *)

MaxLen == 3

MaxPeriod == 3

----------------------------------------------------------------------------
(* Cell values *)

NaN == [k |-> "nan"]

Inf(s) == [k |-> "inf", s |-> s]

Str == [k |-> "str"]

Int64(v) == [k |-> "int", v |-> v]

Abs(x) == IF x < 0 THEN -x ELSE x

Sgn(x) == IF x > 0 THEN 1 ELSE IF x < 0 THEN -1 ELSE 0

RECURSIVE GCD(_, _)
GCD(a, b) == IF b = 0 THEN a ELSE GCD(b, a % b)

IsSquare(r) == \E q \in 0..r : q * q = r

ISqrt(r) == CHOOSE q \in 0..r : q * q = r

(* (n + m*sqrt(r)) / d in normal form: a rational has m = 0 and r = 0, a   *)
(* perfect square under the root is taken out, the fraction is reduced.    *)
Norm(n, m, r, d) ==
    LET sq == (m = 0) \/ IsSquare(r)
        n1 == IF m # 0 /\ sq THEN n + m * ISqrt(r) ELSE n
        m1 == IF sq THEN 0 ELSE m
        r1 == IF sq THEN 0 ELSE r
        g  == GCD(GCD(Abs(n1), Abs(m1)), d)
    IN  [k |-> "num", n |-> n1 \div g, m |-> m1 \div g, r |-> r1, d |-> d \div g]

Num(x) == Norm(x, 0, 0, 1)

IsNaN(a) == a.k = "nan"

IsInf(a) == a.k = "inf"

IsNum(a) == a.k = "num"

(* Sign of a finite number n + m*sqrt(r) (d > 0 does not change it). *)
Sign(a) ==
    IF a.m = 0 THEN Sgn(a.n)
    ELSE IF a.n = 0 THEN Sgn(a.m)
    ELSE IF Sgn(a.n) = Sgn(a.m) THEN Sgn(a.n)
    ELSE IF a.n * a.n > a.m * a.m * a.r THEN Sgn(a.n)
    ELSE IF a.n * a.n < a.m * a.m * a.r THEN Sgn(a.m)
    ELSE 0

(* The radicand two operands of one row share. *)
Root(a, b) == IF a.m # 0 THEN a.r ELSE b.r

Add(a, b) ==
    IF IsNaN(a) \/ IsNaN(b) THEN NaN
    ELSE Norm(a.n * b.d + b.n * a.d, a.m * b.d + b.m * a.d, Root(a, b), a.d * b.d)

Neg(a) == IF IsNaN(a) THEN NaN ELSE Norm(-a.n, -a.m, a.r, a.d)

Sub(a, b) == Add(a, Neg(b))

Mul(a, b) ==
    IF IsNaN(a) \/ IsNaN(b) THEN NaN
    ELSE Norm(a.n * b.n + a.m * b.m * Root(a, b), a.n * b.m + a.m * b.n,
              Root(a, b), a.d * b.d)

(* float64 division: x/0 is +inf or -inf, 0/0 and anything with NaN is NaN; *)
(* numpy raises nothing.                                                    *)
Div(a, b) ==
    IF IsNaN(a) \/ IsNaN(b) THEN NaN
    ELSE IF Sign(b) = 0 THEN (IF Sign(a) = 0 THEN NaN ELSE Inf(Sign(a)))
    ELSE LET q   == b.n * b.n - b.m * b.m * b.r
             inv == Norm(Sgn(q) * b.d * b.n, -Sgn(q) * b.d * b.m, b.r, Abs(q))
         IN  Mul(a, inv)

(* Square root of a rational n/d >= 0: sqrt(n*d)/d. *)
Sqrt(a) == IF IsNaN(a) THEN NaN ELSE Norm(0, 1, a.n * a.d, a.d)

(* Comparisons of float64: False as soon as one side is NaN. *)
Gt(a, b) == ~IsNaN(a) /\ ~IsNaN(b) /\ Sign(Sub(a, b)) > 0

Lt(a, b) == ~IsNaN(a) /\ ~IsNaN(b) /\ Sign(Sub(a, b)) < 0

----------------------------------------------------------------------------
(* pandas' fixed-size rolling window, as the two units use it *)

Max(a, b) == IF a >= b THEN a ELSE b

NotNaN(x) == ~IsNaN(x)

(* The observations of the window ending at position i (1-based): the last *)
(* `window` cells up to and including i, NaN cells dropped.                *)
Window(s, i, window) == SelectSeq(SubSeq(s, Max(1, i - window + 1), i), NotNaN)

RECURSIVE Sum(_)
Sum(w) == IF w = <<>> THEN Num(0) ELSE Add(Head(w), Sum(Tail(w)))

(* Sum of squared differences from the mean. *)
RECURSIVE SSQDM(_, _)
SSQDM(w, mean) ==
    IF w = <<>> THEN Num(0)
    ELSE Add(Mul(Sub(Head(w), mean), Sub(Head(w), mean)), SSQDM(Tail(w), mean))

(* Rolling.mean(): NaN until min_periods observations are in the window. *)
RollingMean(s, window, min_periods) ==
    [i \in 1..Len(s) |->
        LET w == Window(s, i, window)
        IN  IF Len(w) >= min_periods /\ Len(w) > 0
            THEN Div(Sum(w), Num(Len(w)))
            ELSE NaN]

(* Rolling.std() is called without ddof: pandas' default, the sample *)
(* standard deviation.                                               *)
Ddof == 1

RollingStdDdof(s, window, min_periods, ddof) ==
    [i \in 1..Len(s) |->
        LET w == Window(s, i, window)
        IN  IF Len(w) >= Max(min_periods, 1) /\ Len(w) > ddof
            THEN Sqrt(Div(SSQDM(w, Div(Sum(w), Num(Len(w)))), Num(Len(w) - ddof)))
            ELSE NaN]

RollingStdPopulation(s, window, min_periods) ==
    RollingStdDdof(s, window, min_periods, 0)

RollingStd(s, window, min_periods) == RollingStdDdof(s, window, min_periods, Ddof)

IsNumeric(s) == \A i \in 1..Len(s) : s[i].k # "str"

Raise(fn, e) == [fn |-> fn, status |-> "error", error |-> e]

(* Series.rolling(window=period) refuses a negative window; the aggregation *)
(* refuses a series that is not numeric.                                    *)
RollingError(s, window) ==
    IF window < 0 THEN "ValueError"
    ELSE IF ~IsNumeric(s) THEN "DataError"
    ELSE "none"

----------------------------------------------------------------------------
(* tech_ma.py *)

(* rolling(window=period) leaves min_periods to its default, the window size. *)
sma_min_periods_1(s, p) == RollingMean(s, p, 1)

sma(s, p) == RollingMean(s, p, p)

simple_moving_average(s, idx, p) ==
    IF RollingError(s, p) # "none" THEN Raise("sma", RollingError(s, p))
    ELSE [fn |-> "sma", status |-> "ok", index |-> idx, sma |-> sma(s, p)]

----------------------------------------------------------------------------
(* tech_bbands.py *)

bb_middle(s, p) == RollingMean(s, p, p)

bb_std(s, p) == RollingStd(s, p, p)

bb_upper(middle, std, t) ==
    [i \in 1..Len(middle) |-> Add(middle[i], Mul(Num(t), std[i]))]

bb_lower_without_times(middle, std, t) ==
    [i \in 1..Len(middle) |-> Sub(middle[i], std[i])]

bb_lower(middle, std, t) ==
    [i \in 1..Len(middle) |-> Sub(middle[i], Mul(Num(t), std[i]))]

(* astype(int) of the boolean comparison: True is 1, False is 0. *)
AsInt(b) == IF b THEN Int64(1) ELSE Int64(0)

bb_break_upper_or_equal(s, upper) ==
    [i \in 1..Len(s) |-> AsInt(~IsNaN(upper[i]) /\ ~Lt(s[i], upper[i]))]

bb_break_upper(s, upper) == [i \in 1..Len(s) |-> AsInt(Gt(s[i], upper[i]))]

bb_break_lower(s, lower) == [i \in 1..Len(s) |-> AsInt(Lt(s[i], lower[i]))]

bb_bandwidth_not_normalised(upper, lower, middle) ==
    [i \in 1..Len(middle) |-> Sub(upper[i], lower[i])]

bb_bandwidth(upper, lower, middle) ==
    [i \in 1..Len(middle) |-> Div(Sub(upper[i], lower[i]), middle[i])]

bb_percent_b(s, upper, lower) ==
    [i \in 1..Len(s) |-> Div(Sub(s[i], lower[i]), Sub(upper[i], lower[i]))]

bbands(s, idx, p, t) ==
    IF RollingError(s, p) # "none" THEN Raise("bbands", RollingError(s, p))
    ELSE LET middle == bb_middle(s, p)
             std    == bb_std(s, p)
             upper  == bb_upper(middle, std, t)
             lower  == bb_lower(middle, std, t)
         IN  [fn |-> "bbands", status |-> "ok", index |-> idx,
              bb_middle      |-> middle,
              bb_upper       |-> upper,
              bb_lower       |-> lower,
              bb_break_upper |-> bb_break_upper(s, upper),
              bb_break_lower |-> bb_break_lower(s, lower),
              bb_bandwidth   |-> bb_bandwidth(upper, lower, middle),
              bb_percent_b   |-> bb_percent_b(s, upper, lower)]

----------------------------------------------------------------------------
(* The callers' inputs *)

Seqs(S, n) == UNION {[1..l -> S] : l \in 1..n}

(* Cells of a price series: prices, a missing price, a cell that is no number. *)
Cells == {Num(-1), Num(0), Num(1), NaN, Str}

(* Time keys of a series of n cells: the strictly increasing 1..n, or 1..n *)
(* with two neighbours out of order, or with one key repeated.             *)
Ordered(n) == [i \in 1..n |-> i]

Swapped(n, j) == [i \in 1..n |-> IF i = j THEN j - 1 ELSE IF i = j - 1 THEN j ELSE i]

Repeated(n, j) == [i \in 1..n |-> IF i = j THEN j - 1 ELSE i]

Indexes(n) ==
    {Ordered(n)} \cup {Swapped(n, j) : j \in 2..n} \cup {Repeated(n, j) : j \in 2..n}

Periods == -1..MaxPeriod

Times == {-1, 0, 1, 2}

NoResult == [fn |-> "none", status |-> "none"]

Init ==
    /\ close \in Seqs(Cells, MaxLen)
    /\ index \in Indexes(Len(close))
    /\ period \in Periods
    /\ times \in Times
    /\ result = NoResult

CallSimpleMovingAverage ==
    /\ result = NoResult
    /\ result' = simple_moving_average(close, index, period)
    /\ UNCHANGED <<close, index, period, times>>

CallBbands ==
    /\ result = NoResult
    /\ result' = bbands(close, index, period, times)
    /\ UNCHANGED <<close, index, period, times>>

Next == CallSimpleMovingAverage \/ CallBbands

Spec == Init /\ [][Next]_vars

----------------------------------------------------------------------------
(* Vocabulary of the properties *)

Returned(fn) == result.fn = fn /\ result.status = "ok"

Rejected == result.status = "error"

Positions == 1..Len(close)

IsMissing(v) == v.k = "nan"

Same(a, b) == IsNum(a) /\ IsNum(b) /\ Sign(Sub(a, b)) = 0

IsZero(a) == IsNum(a) /\ Sign(a) = 0

AllPrices == \A i \in Positions : IsNum(close[i])

StrictlyIncreasing(idx) == \A i \in 1..(Len(idx) - 1) : idx[i] < idx[i + 1]

(* close[lo] + ... + close[hi], position by position. *)
RECURSIVE SumRange(_, _)
SumRange(lo, hi) == IF lo > hi THEN Num(0) ELSE Add(close[hi], SumRange(lo, hi - 1))

(* The squared distances of close[lo..hi] from c, added up. *)
RECURSIVE SquaresRange(_, _, _)
SquaresRange(lo, hi, c) ==
    IF lo > hi THEN Num(0)
    ELSE Add(Mul(Sub(close[hi], c), Sub(close[hi], c)), SquaresRange(lo, hi - 1, c))

(* The full trailing window ending at i holds only prices. *)
FullWindow(i) == i >= period /\ \A j \in (i - period + 1)..i : IsNum(close[j])

BandsDefined(i) == IsNum(result.bb_upper[i]) /\ IsNum(result.bb_lower[i])

Constant(c) == \A i \in Positions : close[i] = Num(c)

(* A series as the data model describes it, and parameters the error *)
(* taxonomy accepts.                                                 *)
WellFormedSeries == AllPrices /\ StrictlyIncreasing(index)

AcceptedParameters == period >= 1 /\ times >= 0

----------------------------------------------------------------------------
(* C1: for a series without missing values and period p >= 1,              *)
(* simple_moving_average returns a series as long as the input whose cell  *)
(* i is missing before p observations exist and otherwise the arithmetic   *)
(* mean of exactly the p cells ending at i; p = 1 returns the input and    *)
(* p > len returns an all-missing series.                                  *)
C1_SmaTrailingMean ==
    (result.fn = "sma" /\ period >= 1 /\ AllPrices) =>
        /\ Returned("sma")
        /\ Len(result.sma) = Len(close)
        /\ result.index = index
        /\ \A i \in Positions :
              /\ i < period => IsMissing(result.sma[i])
              /\ i >= period =>
                    Same(Mul(result.sma[i], Num(period)), SumRange(i - period + 1, i))
        /\ period = 1 => \A i \in Positions : Same(result.sma[i], close[i])
        /\ period > Len(close) => \A i \in Positions : IsMissing(result.sma[i])

C1_Witness ==
    /\ Returned("sma") /\ AllPrices
    /\ period = 2 /\ Len(close) = 3
    /\ IsMissing(result.sma[1])
    /\ Same(result.sma[2], Num(0)) /\ close[2] = Num(1)
    /\ Same(Mul(result.sma[3], Num(2)), Num(1))

(* C2: wherever bb_upper (bb_lower) is undefined, bb_break_upper          *)
(* (bb_break_lower) is missing, not 0 (checked on the calls with a       *)
(* well-formed series and accepted parameters).                          *)
C2_BreakFlagsMissingWithBands ==
    (Returned("bbands") /\ WellFormedSeries /\ AcceptedParameters) =>
        \A i \in Positions :
            /\ IsMissing(result.bb_upper[i]) => IsMissing(result.bb_break_upper[i])
            /\ IsMissing(result.bb_lower[i]) => IsMissing(result.bb_break_lower[i])

(* C3: where the bands are defined, bb_break_upper is 1 exactly when the   *)
(* price is above bb_upper and 0 otherwise, bb_break_lower is 1 exactly    *)
(* when the price is below bb_lower and 0 otherwise, and with              *)
(* bb_upper >= bb_lower the two flags are never both 1.                    *)
C3_BreakFlags ==
    Returned("bbands") =>
        \A i \in Positions : BandsDefined(i) =>
            /\ result.bb_break_upper[i] =
                  (IF Sign(Sub(close[i], result.bb_upper[i])) = 1 THEN Int64(1) ELSE Int64(0))
            /\ result.bb_break_lower[i] =
                  (IF Sign(Sub(result.bb_lower[i], close[i])) = 1 THEN Int64(1) ELSE Int64(0))
            /\ Sign(Sub(result.bb_upper[i], result.bb_lower[i])) >= 0 =>
                  ~(result.bb_break_upper[i] = Int64(1) /\ result.bb_break_lower[i] = Int64(1))

C3_Witness ==
    /\ Returned("bbands") /\ times = 1 /\ period = 3
    /\ \E i \in Positions : BandsDefined(i) /\ result.bb_break_upper[i] = Int64(1)
    /\ \E i \in Positions : BandsDefined(i) /\ result.bb_break_lower[i] = Int64(0)

(* C4: where the bands are defined they are symmetric around the middle    *)
(* band: bb_upper - bb_middle = times * bb_std = bb_middle - bb_lower,     *)
(* bb_middle and bb_std being the mean and the standard deviation of the   *)
(* same trailing window of `period` cells.                                 *)
C4_BandsSymmetric ==
    Returned("bbands") =>
        \A i \in Positions : BandsDefined(i) =>
            /\ FullWindow(i)
            /\ Same(Mul(result.bb_middle[i], Num(period)), SumRange(i - period + 1, i))
            /\ Same(Sub(result.bb_upper[i], result.bb_middle[i]),
                    Mul(Num(times), bb_std(close, period)[i]))
            /\ Same(Sub(result.bb_middle[i], result.bb_lower[i]),
                    Mul(Num(times), bb_std(close, period)[i]))

C4_Witness ==
    /\ Returned("bbands") /\ times = 2
    /\ \E i \in Positions :
          BandsDefined(i) /\ Sign(Sub(result.bb_upper[i], result.bb_lower[i])) = 1

(* C5 as stated: for a constant series (every cell c, c = 0 included) and  *)
(* every period that fits in it, bbands raises nothing and from the first  *)
(* full window on bb_middle = bb_upper = bb_lower = c, bb_bandwidth = 0    *)
(* and bb_percent_b is missing (checked on the calls with a strictly       *)
(* increasing index and times >= 0).                                       *)
C5_ConstantSeries_AsStated ==
    \A c \in {-1, 0, 1} :
        (/\ result.fn = "bbands" /\ Constant(c) /\ StrictlyIncreasing(index)
         /\ times >= 0 /\ period >= 1 /\ period <= Len(close)) =>
            /\ Returned("bbands")
            /\ \A i \in period..Len(close) :
                  /\ Same(result.bb_middle[i], Num(c))
                  /\ Same(result.bb_upper[i], Num(c))
                  /\ Same(result.bb_lower[i], Num(c))
                  /\ IsZero(result.bb_bandwidth[i])
                  /\ IsMissing(result.bb_percent_b[i])

(* C5, amended: for a constant series (every cell c) and every period that *)
(* fits in it, bbands raises nothing and from the first full window on     *)
(* bb_middle = c and bb_percent_b is missing; with period >= 2 also        *)
(* bb_upper = bb_lower = c, and bb_bandwidth is 0 when c # 0 and missing   *)
(* when c = 0; with period = 1 bb_upper, bb_lower and bb_bandwidth are     *)
(* missing.                                                                *)
C5_ConstantSeries ==
    \A c \in {-1, 0, 1} :
        (result.fn = "bbands" /\ Constant(c) /\ period >= 1 /\ period <= Len(close)) =>
            /\ Returned("bbands")
            /\ \A i \in period..Len(close) :
                  /\ Same(result.bb_middle[i], Num(c))
                  /\ IsMissing(result.bb_percent_b[i])
                  /\ period >= 2 =>
                        /\ Same(result.bb_upper[i], Num(c))
                        /\ Same(result.bb_lower[i], Num(c))
                        /\ c # 0 => IsZero(result.bb_bandwidth[i])
                        /\ c = 0 => IsMissing(result.bb_bandwidth[i])
                  /\ period = 1 =>
                        /\ IsMissing(result.bb_upper[i])
                        /\ IsMissing(result.bb_lower[i])
                        /\ IsMissing(result.bb_bandwidth[i])

C5_Witness ==
    /\ Returned("bbands") /\ Constant(0)
    /\ period = 2 /\ Len(close) = 3 /\ times = 2
    /\ IsZero(result.bb_upper[3])
    /\ IsMissing(result.bb_bandwidth[3])
    /\ IsMissing(result.bb_percent_b[3])

(* C6: a call with period <= 0, or a call of bbands with times < 0, is  *)
(* rejected: it returns no table (checked on the calls with a           *)
(* well-formed series).                                                 *)
C6_InvalidParameterRejected ==
    /\ (result.fn # "none" /\ WellFormedSeries /\ period <= 0) => Rejected
    /\ (result.fn = "bbands" /\ WellFormedSeries /\ times < 0) => Rejected

(* C7: in an accepted call of bbands (period >= 1, times >= 0, times = 0 *)
(* included) on a well-formed series, wherever bb_upper - bb_lower is    *)
(* zero bb_percent_b is the missing marker, never an infinity.           *)
C7_PercentBMissingOnZeroWidth ==
    (Returned("bbands") /\ WellFormedSeries /\ AcceptedParameters) =>
        \A i \in Positions :
            (BandsDefined(i) /\ IsZero(Sub(result.bb_upper[i], result.bb_lower[i]))) =>
                IsMissing(result.bb_percent_b[i])

(* C8: wherever bb_middle is zero or missing, bb_bandwidth is the missing *)
(* marker, not an infinity and not a finite number, and the call raises   *)
(* nothing (checked on the calls with a well-formed series and accepted   *)
(* parameters).                                                           *)
C8_BandwidthMissingOnZeroMiddle ==
    (result.fn = "bbands" /\ WellFormedSeries /\ AcceptedParameters) =>
        /\ Returned("bbands")
        /\ \A i \in Positions :
              (IsMissing(result.bb_middle[i]) \/ IsZero(result.bb_middle[i])) =>
                  IsMissing(result.bb_bandwidth[i])

(* C9: a call whose series has a time index that is not strictly         *)
(* increasing, or a cell that is not a number, fails with an error: it   *)
(* returns no table (checked on the calls with accepted parameters and,  *)
(* for the index, on series of prices).                                  *)
C9_MalformedInputRejected ==
    (result.fn # "none" /\ AcceptedParameters) =>
        /\ ~IsNumeric(close) => Rejected
        /\ (AllPrices /\ ~StrictlyIncreasing(index)) => Rejected

(* C10: the standard deviation behind the bands is the sample standard     *)
(* deviation: for period >= 2, at every position with a full window,       *)
(* (bb_upper - bb_middle)^2 = times^2 * (sum over the window of            *)
(* (x - bb_middle)^2) / (period - 1), and a window with a missing cell     *)
(* leaves the bands missing; for period = 1 bb_upper and bb_lower are      *)
(* missing at every position although bb_middle is defined.                *)
C10_SampleStandardDeviation ==
    Returned("bbands") =>
        /\ period >= 2 =>
              \A i \in period..Len(close) :
                  IF FullWindow(i)
                  THEN /\ Same(Mul(Sub(result.bb_upper[i], result.bb_middle[i]),
                                   Sub(result.bb_upper[i], result.bb_middle[i])),
                               Div(Mul(Num(times * times),
                                       SquaresRange(i - period + 1, i, result.bb_middle[i])),
                                   Num(period - 1)))
                       /\ Same(Mul(Sub(result.bb_middle[i], result.bb_lower[i]),
                                   Sub(result.bb_middle[i], result.bb_lower[i])),
                               Div(Mul(Num(times * times),
                                       SquaresRange(i - period + 1, i, result.bb_middle[i])),
                                   Num(period - 1)))
                  ELSE IsMissing(result.bb_upper[i]) /\ IsMissing(result.bb_lower[i])
        /\ period = 1 =>
              \A i \in Positions :
                  /\ IsMissing(result.bb_upper[i]) /\ IsMissing(result.bb_lower[i])
                  /\ IsNum(close[i]) => Same(result.bb_middle[i], close[i])

C10_Witness ==
    /\ Returned("bbands") /\ period = 3 /\ times = 2 /\ Len(close) = 3
    /\ close = <<Num(0), Num(0), Num(1)>>
    /\ Same(Mul(Sub(result.bb_upper[3], result.bb_middle[3]),
                Sub(result.bb_upper[3], result.bb_middle[3])),
            Div(Num(4), Num(3)))

====
